---- MODULE Spec2Model ----
(***************************************************************************)
(* A model of the librarian archive manager: the archive store (add,       *)
(* get_doc, rekey), the link manager (link, fix_link, fix_links, bookmark) *)
(* and the search orchestrator (search_docs) of librarianlib/management.py,*)
(* with the older add and grep commands of lib.py and main of librarian.py.*)
(*                                                                         *)
(* Strings are sequences of character codes, so that the orders Python     *)
(* uses (lexicographic on str, numeric on int) and str.lower() are         *)
(* computed and not assumed.  Paths are sequences of path components.      *)
(***************************************************************************)
EXTENDS Integers, Sequences, FiniteSets, TLC

(***************************************************************************)
(* Bounds of the model.                                                    *)
(***************************************************************************)
\* Filesystem timestamps are drawn from 1..MaxTime.
MaxTime == 2
\* The largest archive the search specification starts from.
MaxDocs == 2

(***************************************************************************)
(* Strings.                                                                *)
(***************************************************************************)
\* Python's None for an optional string argument (no string holds code -1).
None == << -1 >>

\* Keys.
kB == << 66 >>           \* "B"
ka == << 97 >>           \* "a"
kb == << 98 >>           \* "b"
Keys == {kB, ka, kb}

\* Titles.
tAb == << 65, 98 >>      \* "Ab"
tab == << 97, 98 >>      \* "ab"
tB  == << 66 >>          \* "B"
tc  == << 99 >>          \* "c"

\* Years, as the strings a bibliographic record holds.
y999  == << 57, 57, 57 >>        \* "999"
y2019 == << 50, 48, 49, 57 >>    \* "2019"
y2020 == << 50, 48, 50, 48 >>    \* "2020"

\* str.lower() on one character and on a string (ASCII letters).
LowerChar(c) == IF c >= 65 /\ c <= 90 THEN c + 32 ELSE c
Lower(s) == [i \in 1..Len(s) |-> LowerChar(s[i])]

\* s < t as Python compares two str values: lexicographic by code point.
StrLess(s, t) ==
    \E i \in 1..(Len(s) + 1) :
        /\ i <= Len(t)
        /\ \A j \in 1..(i - 1) : s[j] = t[j]
        /\ (i = Len(s) + 1 \/ s[i] < t[i])

\* The number a numeral denotes.
RECURSIVE NumValue(_)
NumValue(s) ==
    IF s = << >> THEN 0
    ELSE 10 * NumValue(SubSeq(s, 1, Len(s) - 1)) + (s[Len(s)] - 48)

(***************************************************************************)
(* Errors: the exception class an operation ends with, and what it is      *)
(* about.  "ok" is normal completion.                                      *)
(***************************************************************************)
Ok == "ok"
ErrNotFound   == "Exception: key not found in archive"
ErrDuplicate  == "LibraryException: archive already contains key"
ErrAmbiguous  == "LibraryException: more than one entry in bibtex file"
ErrExists     == "LibraryException: symlink already exists"
ErrNotLink    == "LibraryException: not a symlink"
ErrIndex      == "IndexError"
ErrNoFile     == "FileNotFoundError"
ErrFileExists == "FileExistsError"
ErrValue      == "ValueError"
ErrNotDir     == "NotADirectoryError"
ErrAttribute  == "AttributeError"

\* The errors raised as LibraryException, the class main catches.
LibraryExceptions == {ErrDuplicate, ErrAmbiguous, ErrExists, ErrNotLink}

\* librarian.py main: how the process ends when the command ends with err.
\* A LibraryException is caught, its message printed and 1 returned; any other
\* exception leaves main uncaught, and the interpreter prints a traceback.
main(err) ==
    IF err = Ok THEN [caught |-> FALSE, traceback |-> FALSE, status |-> 0]
    ELSE IF err \in LibraryExceptions
        THEN [caught |-> TRUE, traceback |-> FALSE, status |-> 1]
    ELSE [caught |-> FALSE, traceback |-> TRUE, status |-> 1]

(***************************************************************************)
(* Bibliographic files.  A file's content is the sequence of records the   *)
(* parser reads from it.                                                   *)
(***************************************************************************)
Rec(id, title, year) == [ID |-> id, title |-> title, year |-> year]

\* bibtexparser: entries_dict is a dict keyed by each entry's ID, so its keys
\* are the distinct IDs in order of first occurrence.
RECURSIVE EntriesDictKeys(_)
EntriesDictKeys(bib) ==
    IF bib = << >> THEN << >>
    ELSE LET front == EntriesDictKeys(SubSeq(bib, 1, Len(bib) - 1))
             id    == bib[Len(bib)].ID
         IN  IF \E i \in 1..Len(front) : front[i] = id THEN front
             ELSE Append(front, id)

\* _key_from_bibtex: the key of a bibtex file, or the error it raises.
key_from_bibtex(bib) ==
    LET keys == EntriesDictKeys(bib)
    IN  IF Len(keys) > 1 THEN [err |-> ErrAmbiguous, key |-> None]
        ELSE IF Len(keys) = 0 THEN [err |-> ErrIndex, key |-> None]
        ELSE [err |-> Ok, key |-> keys[1]]

\* The bibliographic sources a user adds or edits a file into.
BibA    == << Rec(ka, tab, y2020) >>
BibB    == << Rec(kb, tB, y2019) >>
BibAB   == << Rec(ka, tab, y2020), Rec(kb, tB, y2019) >>
BibAA   == << Rec(ka, tab, y2020), Rec(ka, tc, y999) >>
BibNone == << >>
BibSources == {BibA, BibB, BibAB, BibAA, BibNone}

\* The contents of the PDF files a user adds.
Pdfs == {"pdf1", "pdf2"}

\* What a source path that names no file stands for.
NoSuchFile == "no such file"

(***************************************************************************)
(* State.                                                                  *)
(*   archive       the archive directory: key directory name -> contents   *)
(*   archive_path  the path of the archive directory (LibraryManager)      *)
(*   fs            the filesystem outside the archive: path -> object      *)
(*   last          the last operation called, with its outcome             *)
(***************************************************************************)
VARIABLES archive, archive_path, fs, last

vars == << archive, archive_path, fs, last >>

Empty == [x \in {} |-> {}]          \* a directory or mapping with no entry
Remove(f, x) == [y \in (DOMAIN f) \ {x} |-> f[y]]
Put(f, x, v) == [y \in (DOMAIN f) \cup {x} |-> IF y = x THEN v ELSE f[y]]

\* A PDF file: its content, and the timestamps the filesystem keeps for it.
PdfFile(data, t) == [data |-> data, mtime |-> t, atime |-> t]

\* A key directory: the files <stem>.pdf and <stem>.bib in it by stem, whether
\* the metadata directory is there, and the directories nested in it by name.
Dir(pdf, bib, meta) == [pdf |-> pdf, bib |-> bib, meta |-> meta, sub |-> Empty]

\* The directory add creates for a document.
DocDir(key, data, bib, t, meta) ==
    Dir(Put(Empty, key, PdfFile(data, t)), Put(Empty, key, bib), meta)

\* The empty string.
EmptyName == << >>

\* LibraryManager.has_key: os.path.isdir of archive_path joined with the key.
\* Joined with the empty string the path is that of the archive directory
\* itself, with a slash at its end, and the archive directory is there.
has_key(arch, key) == key = EmptyName \/ key \in DOMAIN arch

\* An operation's outcome: the exception it ends with (or Ok), the archive it
\* leaves, and the value it returns.
Outcome(err, arch, ret) == [err |-> err, archive |-> arch, ret |-> ret]

\* LibraryManager.get_doc: returns the document (here: its key).
manager_get_doc(arch, key) ==
    IF ~has_key(arch, key) THEN Outcome(ErrNotFound, arch, None)
    ELSE Outcome(Ok, arch, key)

\* Mutant: add without the check for an existing key.
manager_add_overwrite(arch, data, bib, t) ==
    LET k == key_from_bibtex(bib)
    IN  IF k.err # Ok THEN Outcome(k.err, arch, None)
        ELSE IF data = NoSuchFile
            THEN Outcome(ErrNoFile, Put(arch, k.key, Dir(Empty, Empty, TRUE)), None)
        ELSE Outcome(Ok, Put(arch, k.key, DocDir(k.key, data, bib, t, TRUE)), k.key)

\* Mutant: add without the copy of the bibliographic file.
manager_add_nobib(arch, data, bib, t) ==
    LET k == key_from_bibtex(bib)
    IN  IF k.err # Ok THEN Outcome(k.err, arch, None)
        ELSE IF has_key(arch, k.key) THEN Outcome(ErrDuplicate, arch, None)
        ELSE IF data = NoSuchFile
            THEN Outcome(ErrNoFile, Put(arch, k.key, Dir(Empty, Empty, TRUE)), None)
        ELSE Outcome(Ok, Put(arch, k.key,
                             Dir(Put(Empty, k.key, PdfFile(data, t)), Empty, TRUE)),
                     k.key)

\* LibraryManager.add: returns the document (here: its key).  The two
\* directories are made before the copies: when the PDF source is not there
\* shutil.copy raises and the key directory stays, with the metadata directory
\* alone in it.  (The bibliographic source has been read by then.)
manager_add(arch, data, bib, t) ==
    LET k == key_from_bibtex(bib)
    IN  IF k.err # Ok THEN Outcome(k.err, arch, None)
        ELSE IF has_key(arch, k.key) THEN Outcome(ErrDuplicate, arch, None)
        ELSE IF data = NoSuchFile
            THEN Outcome(ErrNoFile, Put(arch, k.key, Dir(Empty, Empty, TRUE)), None)
        ELSE Outcome(Ok, Put(arch, k.key, DocDir(k.key, data, bib, t, TRUE)), k.key)

\* lib.py do_add: prints and returns 1 where the manager raises; makes no
\* metadata directory.  (With delete the two source files are moved instead of
\* copied; they lie outside the archive.)  The key directory is made before
\* the PDF is copied or moved, and stays when there is no PDF to copy.
RetAmbiguous == "return 1: more than one entry in the bibtex file"
RetExists    == "return 1: archive already exists"
lib_do_add(arch, data, bib, t) ==
    LET keys == EntriesDictKeys(bib)
    IN  IF Len(keys) > 1 THEN Outcome(RetAmbiguous, arch, None)
        ELSE IF Len(keys) = 0 THEN Outcome(ErrIndex, arch, None)
        ELSE IF keys[1] \in DOMAIN arch THEN Outcome(RetExists, arch, None)
        ELSE IF data = NoSuchFile
            THEN Outcome(ErrNoFile, Put(arch, keys[1], Dir(Empty, Empty, FALSE)), None)
        ELSE Outcome(Ok, Put(arch, keys[1], DocDir(keys[1], data, bib, t, FALSE)),
                     keys[1])

(***************************************************************************)
(* shutil.move inside the archive.                                         *)
(***************************************************************************)
\* Move the file <sstem>.<ext> of directory sdir to <dstem>.<ext> of directory
\* ddir.  os.rename and the copy it falls back to both fail when the source
\* is missing or the destination's directory does not exist.
MoveFile(arch, ext, sdir, sstem, ddir, dstem) ==
    IF sdir \notin DOMAIN arch \/ ddir \notin DOMAIN arch
        THEN [err |-> ErrNoFile, archive |-> arch]
    ELSE IF sstem \notin DOMAIN arch[sdir][ext]
        THEN [err |-> ErrNoFile, archive |-> arch]
    ELSE LET f  == arch[sdir][ext][sstem]
             a1 == [arch EXCEPT ![sdir][ext] = Remove(@, sstem)]
         IN  [err |-> Ok, archive |-> [a1 EXCEPT ![ddir][ext] = Put(@, dstem, f)]]

\* Move directory sdir to ddir: a rename when ddir does not exist, a move into
\* ddir (as ddir/sdir) when ddir is a directory.
MoveDir(arch, sdir, ddir) ==
    IF sdir \notin DOMAIN arch THEN [err |-> ErrNoFile, archive |-> arch]
    ELSE IF ddir \notin DOMAIN arch
        THEN [err |-> Ok, archive |-> Put(Remove(arch, sdir), ddir, arch[sdir])]
    ELSE IF sdir = ddir \/ sdir \in DOMAIN arch[ddir].sub
        THEN [err |-> "shutil.Error", archive |-> arch]
    ELSE [err |-> Ok,
          archive |-> [Remove(arch, sdir) EXCEPT ![ddir].sub = Put(@, sdir, arch[sdir])]]

(***************************************************************************)
(* rekey.                                                                  *)
(***************************************************************************)
\* BibTexWriter.write: the entries in order of their ID (a stable sort).
RECURSIVE WriterOrder(_)
WriterOrder(entries) ==
    IF entries = << >> THEN << >>
    ELSE LET front == WriterOrder(SubSeq(entries, 1, Len(entries) - 1))
             e     == entries[Len(entries)]
             n     == Cardinality({i \in 1..Len(front) : ~StrLess(e.ID, front[i].ID)})
         IN  SubSeq(front, 1, n) \o << e >> \o SubSeq(front, n + 1, Len(front))

\* The end of rekey: the file, opened 'r+', is read to its end, entries[0]
\* gets the new ID and the written entries go where the read stopped.
RewriteBib(arch, key) ==
    IF key \notin DOMAIN arch THEN [err |-> ErrNoFile, archive |-> arch]
    ELSE IF key \notin DOMAIN arch[key].bib THEN [err |-> ErrNoFile, archive |-> arch]
    ELSE LET old == arch[key].bib[key]
         IN  IF old = << >> THEN [err |-> ErrIndex, archive |-> arch]
             ELSE [err |-> Ok,
                   archive |-> [arch EXCEPT ![key].bib[key] =
                                   old \o WriterOrder([old EXCEPT ![1].ID = key])]]

\* The three moves of rekey and the rewrite, each reached when the one before
\* raised nothing.
RekeyMoves(arch, old_key, new_key) ==
    LET m1 == MoveFile(arch, "pdf", old_key, old_key, new_key, new_key)
        m2 == MoveFile(m1.archive, "bib", old_key, old_key, new_key, new_key)
        m3 == MoveDir(m2.archive, old_key, new_key)
        w  == RewriteBib(m3.archive, new_key)
    IN  IF m1.err # Ok THEN Outcome(m1.err, m1.archive, None)
        ELSE IF m2.err # Ok THEN Outcome(m2.err, m2.archive, None)
        ELSE IF m3.err # Ok THEN Outcome(m3.err, m3.archive, None)
        ELSE Outcome(w.err, w.archive, None)

\* The key rekey moves to: the one given, or the one of the bibtex file.
ResolveNewKey(arch, old_key, new_key) ==
    IF new_key # None THEN [err |-> Ok, key |-> new_key]
    ELSE IF old_key \notin DOMAIN arch[old_key].bib THEN [err |-> ErrNoFile, key |-> None]
    ELSE key_from_bibtex(arch[old_key].bib[old_key])

\* Mutant: rekey without the check for an existing new key.
manager_rekey_nocheck(arch, old_key, new_key) ==
    IF ~has_key(arch, old_key) THEN Outcome(ErrNotFound, arch, None)
    ELSE LET k == ResolveNewKey(arch, old_key, new_key)
         IN  IF k.err # Ok THEN Outcome(k.err, arch, None)
             ELSE RekeyMoves(arch, old_key, k.key)

\* LibraryManager.rekey.  It has no return statement: it returns None.
manager_rekey(arch, old_key, new_key) ==
    IF ~has_key(arch, old_key) THEN Outcome(ErrNotFound, arch, None)
    ELSE LET k == ResolveNewKey(arch, old_key, new_key)
         IN  IF k.err # Ok THEN Outcome(k.err, arch, None)
             ELSE IF has_key(arch, k.key) THEN Outcome(ErrDuplicate, arch, None)
             ELSE RekeyMoves(arch, old_key, k.key)

(***************************************************************************)
(* The command interface.                                                  *)
(***************************************************************************)
Slash == 47

\* str.split('/')[-1]: what follows the last slash.
RECURSIVE LastPiece(_)
LastPiece(s) ==
    IF s = << >> THEN << >>
    ELSE IF s[Len(s)] = Slash THEN << >>
    ELSE Append(LastPiece(SubSeq(s, 1, Len(s) - 1)), s[Len(s)])

\* _sanitize_key: drop one trailing slash, keep the last piece of a path.
sanitize_key(key) ==
    IF key = None THEN None
    ELSE IF key[Len(key)] = Slash THEN LastPiece(SubSeq(key, 1, Len(key) - 1))
    ELSE LastPiece(key)

\* The keys a user types: the keys, and one completed with a trailing slash.
TypedKeys == Keys \cup {ka \o << Slash >>}

(***************************************************************************)
(* Paths and the filesystem outside the archive.  A path is the sequence   *)
(* of its components; an absolute path starts with the component "/".      *)
(***************************************************************************)
RootDir  == << Slash >>                                  \* "/"
nLib1    == << 108, 49 >>                                \* "l1"
nLib2    == << 108, 50 >>                                \* "l2"
nArchive == << 97, 114, 99, 104, 105, 118, 101 >>        \* "archive"
nHome    == << 104 >>                                    \* "h"
nPaper   == << 112 >>                                    \* "p"
nGone    == << 120 >>                                    \* "x"
nBookmarks == << 98, 111, 111, 107, 109, 97, 114, 107, 115 >>    \* "bookmarks"

\* The places the library is kept at, before and after it is moved.
ArchivePaths == {<< RootDir, nLib1, nArchive >>, << RootDir, nLib2, nArchive >>}

\* os.getcwd(): the directory the commands are run in.
Cwd == << RootDir, nHome >>

\* Python's None for an optional path argument.
NoPath == << >>

isabs(path) == path # << >> /\ path[1] = RootDir

\* os.path.basename: what follows the last slash, the empty string for "/" and
\* for a path that ends with a slash (its last component is then EmptyName).
basename(path) ==
    IF path = << >> THEN EmptyName
    ELSE IF path = << RootDir >> THEN EmptyName
    ELSE path[Len(path)]
dirname(path) == SubSeq(path, 1, Len(path) - 1)

\* The path the operating system resolves a path argument to.
abspath(path) == IF isabs(path) THEN path ELSE Cwd \o path

\* DocumentPaths(archive_path, key).key_path
key_path(root, key) == root \o << key >>

\* The objects of the filesystem.
File == [kind |-> "file", target |-> << >>]
Directory == [kind |-> "dir", target |-> << >>]
SymLink(target) == [kind |-> "link", target |-> target]

\* os.path.islink, os.path.lexists
islink(fsys, path) == path \in DOMAIN fsys /\ fsys[path].kind = "link"
lexists(fsys, path) == path \in DOMAIN fsys

\* The longest chain of symlinks the model follows.
MaxHops == 2

\* os.path.exists: the path, symlinks followed, leads to something.
RECURSIVE exists_from(_, _, _, _, _)
exists_from(fsys, arch, root, path, hops) ==
    IF path = Cwd \/ path = root \/ path = dirname(root) \/ path = << RootDir >> THEN TRUE
    ELSE IF dirname(path) = root
        THEN basename(path) = EmptyName \/ basename(path) \in DOMAIN arch
    ELSE IF path \notin DOMAIN fsys THEN FALSE
    ELSE IF fsys[path].kind # "link" THEN TRUE
    ELSE hops > 0 /\ exists_from(fsys, arch, root, fsys[path].target, hops - 1)

exists(fsys, arch, root, path) == exists_from(fsys, arch, root, path, MaxHops)

\* os.path.isdir on the parent of a path: the directory an entry is made in.
parent_isdir(fsys, arch, root, path) ==
    LET d == dirname(path)
    IN  \/ d = Cwd
        \/ d = root
        \/ d = dirname(root)
        \/ d \in DOMAIN fsys /\ fsys[d].kind = "dir"

\* os.symlink(src, dest)
symlink(fsys, arch, root, src, dest) ==
    IF lexists(fsys, dest) THEN [err |-> ErrFileExists, fs |-> fsys]
    ELSE IF ~parent_isdir(fsys, arch, root, dest) THEN [err |-> ErrNoFile, fs |-> fsys]
    ELSE [err |-> Ok, fs |-> Put(fsys, dest, SymLink(src))]

\* A number an operation returns (None is the value of no number).
Returned(n) == << n >>

\* An operation's outcome on the filesystem outside the archive.
FsOutcome(err, fsys, ret, out) == [err |-> err, fs |-> fsys, ret |-> ret, out |-> out]

\* LibraryManager.link
manager_link(fsys, arch, root, key, path) ==
    LET p    == IF path # NoPath THEN path ELSE << key >>
        dest == abspath(p)
        made == symlink(fsys, arch, root, key_path(root, key), dest)
    IN  IF ~has_key(arch, key) THEN FsOutcome(ErrNotFound, fsys, None, << >>)
        ELSE IF exists(fsys, arch, root, dest) THEN FsOutcome(ErrExists, fsys, None, << >>)
        ELSE FsOutcome(made.err, made.fs, None, << >>)

\* Mutant: fix_link recreates the link with the target it read.
manager_fix_link_same(fsys, arch, root, link) ==
    IF ~islink(fsys, abspath(link)) THEN FsOutcome(ErrNotLink, fsys, None, << >>)
    ELSE LET key == basename(fsys[abspath(link)].target)
         IN  IF ~has_key(arch, key) THEN FsOutcome(Ok, fsys, Returned(1), << link >>)
             ELSE FsOutcome(Ok, fsys, None, << >>)

\* Mutant: fix_link recreates the link without removing the old one first.
manager_fix_link_noremove(fsys, arch, root, link) ==
    IF ~islink(fsys, abspath(link)) THEN FsOutcome(ErrNotLink, fsys, None, << >>)
    ELSE LET key == basename(fsys[abspath(link)].target)
         IN  IF ~has_key(arch, key) THEN FsOutcome(Ok, fsys, Returned(1), << link >>)
             ELSE manager_link(fsys, arch, root, key, link)

\* LibraryManager.fix_link: returns 1, after a printed report, when the
\* link's key is not in the archive.
manager_fix_link(fsys, arch, root, link) ==
    IF ~islink(fsys, abspath(link)) THEN FsOutcome(ErrNotLink, fsys, None, << >>)
    ELSE LET key == basename(fsys[abspath(link)].target)
         IN  IF ~has_key(arch, key) THEN FsOutcome(Ok, fsys, Returned(1), << link >>)
             ELSE manager_link(Remove(fsys, abspath(link)), arch, root, key, link)

\* The path a path leads to when the symlinks at it are followed, << >> when
\* the chain is longer than the model follows.
RECURSIVE resolve(_, _, _)
resolve(fsys, path, hops) ==
    IF path \in DOMAIN fsys /\ fsys[path].kind = "link"
        THEN IF hops > 0 THEN resolve(fsys, fsys[path].target, hops - 1) ELSE << >>
    ELSE path

\* os.listdir(directory): the names of the entries of a directory, or the
\* error raised when there is no directory to list.  A key directory holds
\* the files <key>.pdf and <key>.bib and the metadata directory, names at which
\* the model keeps nothing outside the archive; so does "/".
listdir(fsys, arch, root, directory) ==
    LET d == resolve(fsys, abspath(directory), MaxHops)
    IN  IF d = Cwd \/ (d \in DOMAIN fsys /\ fsys[d].kind = "dir")
            THEN [err |-> Ok,
                  names |-> {basename(q) : q \in {e \in DOMAIN fsys : dirname(e) = d}}]
        ELSE IF d = root \/ d = root \o << EmptyName >>
            THEN [err |-> Ok, names |-> DOMAIN arch]
        ELSE IF d = << RootDir >> \/ (dirname(d) = root /\ basename(d) \in DOMAIN arch)
            THEN [err |-> Ok, names |-> {}]
        ELSE IF d \in DOMAIN fsys THEN [err |-> ErrNotDir, names |-> {}]
        ELSE [err |-> ErrNoFile, names |-> {}]

\* The loop of fix_links over the names listed, in the order listed:
\* filter(os.path.islink, files) tests each name, and fix_link gets each name,
\* as the name is: a path relative to the working directory.
RECURSIVE fix_links_loop(_, _, _, _, _)
fix_links_loop(fsys, arch, root, files, out) ==
    IF files = << >> THEN FsOutcome(Ok, fsys, None, out)
    ELSE IF ~islink(fsys, abspath(<< Head(files) >>))
        THEN fix_links_loop(fsys, arch, root, Tail(files), out)
    ELSE LET r == manager_fix_link(fsys, arch, root, << Head(files) >>)
         IN  IF r.err # Ok THEN FsOutcome(r.err, r.fs, None, out \o r.out)
             ELSE fix_links_loop(r.fs, arch, root, Tail(files), out \o r.out)

\* LibraryManager.fix_links, files being the names in the order os.listdir
\* gives them.
manager_fix_links(fsys, arch, root, directory, files) ==
    IF listdir(fsys, arch, root, directory).err # Ok
        THEN FsOutcome(listdir(fsys, arch, root, directory).err, fsys, None, << >>)
    ELSE fix_links_loop(fsys, arch, root, files, << >>)

(***************************************************************************)
(* Documents and the match engine (librarianlib/document.py).              *)
(***************************************************************************)
\* The text the extractor gets from a PDF; None when extraction fails.
pdf_text(data) == IF data = "pdf1" THEN << 97, 99, 97 >> ELSE None

\* ArchivalDocument: the view of one key directory.  The dates are read from
\* the primary content file.
ArchivalDocument(arch, key) ==
    [key      |-> key,
     bibtex   |-> arch[key].bib[key][1],
     added    |-> arch[key].pdf[key].mtime,
     accessed |-> arch[key].pdf[key].atime,
     text     |-> pdf_text(arch[key].pdf[key].data)]

\* The number of matches of a one-character pattern in a string, case ignored.
CountIn(c, s) == Cardinality({i \in 1..Len(s) : LowerChar(s[i]) = LowerChar(c)})

\* DocumentTemplate: the filters of a search.  year is None or the year wanted,
\* text is << >> (no regex) or << c >>, the pattern matching character c.
DocumentTemplate(year, text) == [year |-> year, text |-> text]

\* doc.matches(tmpl): whether the document matches, and the match count.
matches(doc, tmpl) ==
    IF tmpl.year # None /\ doc.bibtex.year # tmpl.year THEN << FALSE, 0 >>
    ELSE IF tmpl.text = << >> THEN << TRUE, 0 >>
    ELSE LET c     == tmpl.text[1]
             inbib == CountIn(c, doc.bibtex.title) + CountIn(c, doc.bibtex.year)
             intxt == IF doc.text = None THEN 0 ELSE CountIn(c, doc.text)
         IN  << inbib + intxt > 0, inbib + intxt >>

(***************************************************************************)
(* search_docs.                                                            *)
(***************************************************************************)
SortKeys == {"key", "title", "year", "added", "recent", "matches"}
NoSort == "None"

\* _doc_sort_key, and the < of Python on two of its values: str values for
\* key, title and year, numbers for the dates and the count.
SortKeyLess(sort, a, b) ==
    CASE sort = "key"     -> StrLess(a.doc.key, b.doc.key)
      [] sort = "title"   -> StrLess(Lower(a.doc.bibtex.title), Lower(b.doc.bibtex.title))
      [] sort = "year"    -> StrLess(a.doc.bibtex.year, b.doc.bibtex.year)
      [] sort = "added"   -> a.doc.added < b.doc.added
      [] sort = "recent"  -> a.doc.accessed < b.doc.accessed
      [] sort = "matches" -> a.count < b.count
      [] OTHER            -> StrLess(a.doc.bibtex.year, b.doc.bibtex.year)

\* sorted(seq, key=_doc_sort_key, reverse=reverse): stable in both directions.
RECURSIVE sorted(_, _, _)
sorted(seq, sort, reverse) ==
    IF seq = << >> THEN << >>
    ELSE LET front == sorted(SubSeq(seq, 1, Len(seq) - 1), sort, reverse)
             x     == seq[Len(seq)]
             n     == Cardinality({i \in 1..Len(front) :
                          IF reverse THEN ~SortKeyLess(sort, front[i], x)
                                     ELSE ~SortKeyLess(sort, x, front[i])})
         IN  SubSeq(front, 1, n) \o << x >> \o SubSeq(front, n + 1, Len(front))

\* The matching documents with their counts, in the order of os.listdir.
RECURSIVE matching(_, _, _)
matching(arch, order, tmpl) ==
    IF order = << >> THEN << >>
    ELSE LET front == matching(arch, SubSeq(order, 1, Len(order) - 1), tmpl)
             doc   == ArchivalDocument(arch, order[Len(order)])
             m     == matches(doc, tmpl)
         IN  IF m[1] THEN Append(front, [doc |-> doc, count |-> m[2]]) ELSE front

\* An optional number: << >> is None, << n >> is n.
NoNumber == << >>

\* docs[:number]
Prefix(seq, n) ==
    IF n >= 0 THEN SubSeq(seq, 1, IF n < Len(seq) THEN n ELSE Len(seq))
    ELSE SubSeq(seq, 1, IF Len(seq) + n > 0 THEN Len(seq) + n ELSE 0)

\* _summarize_doc at verbosity 0: the key, and the count when it is not 0.
summarize_doc(entry) == [key |-> entry.doc.key, count |-> entry.count]

\* The direction sorted is given: flipped for all sort keys but key and title.
Direction(sort, reverse) == IF sort \notin {"key", "title"} THEN ~reverse ELSE reverse

\* LibraryManager.search_docs: the summaries in order, or the error raised.
\* Unpacking zip(*docs_counts) into docs, counts raises ValueError when there
\* is nothing to unpack.
search_docs(arch, order, tmpl, sort, number, reverse) ==
    LET found  == matching(arch, order, tmpl)
        sorter == sorted(found, sort, Direction(sort, reverse))
        docs   == IF sort # NoSort THEN sorter ELSE found
        cut    == IF number # NoNumber /\ number[1] # 0 THEN Prefix(docs, number[1])
                  ELSE docs
    IN  IF sort # NoSort /\ found = << >> THEN [err |-> ErrValue, ret |-> << >>]
        ELSE [err |-> Ok, ret |-> [i \in 1..Len(cut) |-> summarize_doc(cut[i])]]

(***************************************************************************)
(* lib.py: the grep command.  A regex is modelled by the one character it  *)
(* matches; the records of the model have the fields ID, title and year.    *)
(***************************************************************************)
\* len(regex.findall(value)), the regex compiled with re.IGNORECASE unless the
\* search is case sensitive.
findall_count(regex, case_sensitive, value) ==
    Cardinality({i \in 1..Len(value) :
                    IF case_sensitive THEN value[i] = regex
                    ELSE LowerChar(value[i]) = LowerChar(regex)})

\* load_bib_dict: the records of all the .bib files of the archive, by ID
\* (of two records with one ID the dict keeps one).
load_bib_dict(arch) ==
    LET records == {arch[key].bib[stem][i] :
                        <<key, stem, i>> \in
                            {t \in (DOMAIN arch) \X Keys \X (1..2) :
                                /\ t[2] \in DOMAIN arch[t[1]].bib
                                /\ t[3] <= Len(arch[t[1]].bib[t[2]])}}
    IN  [id \in {r.ID : r \in records} |-> CHOOSE r \in records : r.ID = id]

\* do_grep: the count printed for each key with a match.  search_text is
\* computed from the options and used nowhere: only the search of the
\* bibliography follows.
lib_do_grep(arch, regex, bib, text, case_sensitive) ==
    LET search_either == bib \/ text
        search_bib    == bib \/ ~search_either
        search_text   == text \/ ~search_either
        bib_dict      == load_bib_dict(arch)
        count(info)   == findall_count(regex, case_sensitive, info.title)
                             + findall_count(regex, case_sensitive, info.year)
    IN  IF search_bib
            THEN [key \in {id \in DOMAIN bib_dict : count(bib_dict[id]) > 0} |->
                      count(bib_dict[key])]
        ELSE Empty

(***************************************************************************)
(* The archive store: the operations as steps.  last records the call:     *)
(* its name (op), its arguments, the exception it ended with (err), the    *)
(* value it returned (ret) and, for a command, what it printed (out).      *)
(***************************************************************************)
\* The time the filesystem stamps a file with when an operation touches it:
\* not before the time of any file already there.
Now == MaxTime

\* manager.add(pdf_src_path, bib_src_path), on source files of these contents.
add(data, bib) ==
    LET r == manager_add(archive, data, bib, Now)
    IN  /\ archive' = r.archive
        /\ last' = [op |-> "add", src |-> bib, err |-> r.err, ret |-> r.ret]
        /\ UNCHANGED << archive_path, fs >>

\* lib.py: the add command.
do_add(data, bib, delete) ==
    LET r == lib_do_add(archive, data, bib, Now)
    IN  /\ archive' = r.archive
        /\ last' = [op |-> "do_add", src |-> bib, delete |-> delete, err |-> r.err,
                    ret |-> r.ret]
        /\ UNCHANGED << archive_path, fs >>

\* manager.get_doc(key)
get_doc(key) ==
    LET r == manager_get_doc(archive, key)
    IN  /\ archive' = r.archive
        /\ last' = [op |-> "get_doc", key |-> key, err |-> r.err, ret |-> r.ret]
        /\ UNCHANGED << archive_path, fs >>

\* manager.rekey(old_key, new_key)
rekey(old_key, new_key) ==
    LET r == manager_rekey(archive, old_key, new_key)
    IN  /\ archive' = r.archive
        /\ last' = [op |-> "rekey", key |-> old_key, new_key |-> new_key,
                    err |-> r.err, ret |-> r.ret, out |-> << >>]
        /\ UNCHANGED << archive_path, fs >>

\* LibraryCommandInterface.rekey: prints 'Renamed <key> to <new_key>.' with the
\* value manager.rekey returned.
cmd_rekey(typed, new_key) ==
    LET key == sanitize_key(typed)
        r   == manager_rekey(archive, key, new_key)
    IN  /\ archive' = r.archive
        /\ last' = [op |-> "cmd_rekey", key |-> key, new_key |-> new_key,
                    err |-> r.err, ret |-> r.ret,
                    out |-> IF r.err = Ok THEN << key, r.ret >> ELSE << >>]
        /\ UNCHANGED << archive_path, fs >>

\* doc.access(): the primary content file is read now.
access(arch, key) ==
    IF key \in DOMAIN arch[key].pdf
        THEN [arch EXCEPT ![key].pdf[key].atime = Now]
    ELSE arch

\* LibraryCommandInterface.open: with bib the user edits the bibliographic
\* file in an editor and leaves it with the content edited.
open(typed, bib, edited) ==
    LET key == sanitize_key(typed)
    IN  /\ IF ~has_key(archive, key)
               THEN /\ archive' = archive
                    /\ last' = [op |-> "open", key |-> key, bib |-> bib,
                                err |-> ErrNotFound]
           ELSE /\ archive' =
                       IF bib THEN [access(archive, key) EXCEPT ![key].bib =
                                       Put(@, key, edited)]
                       ELSE access(archive, key)
                /\ last' = [op |-> "open", key |-> key, bib |-> bib, err |-> Ok]
        /\ UNCHANGED << archive_path, fs >>

InitialPath == << RootDir, nLib1, nArchive >>

\* A library just set up: an empty archive, nothing linked.
Init ==
    /\ archive = Empty
    /\ archive_path = InitialPath
    /\ fs = Empty
    /\ last = [op |-> "none", err |-> Ok]

Next ==
    \/ \E data \in Pdfs, bib \in BibSources : add(data, bib)
    \/ \E key \in Keys : get_doc(key)
    \/ \E data \in Pdfs, bib \in BibSources, delete \in BOOLEAN : do_add(data, bib, delete)
    \/ \E old_key \in Keys, new_key \in Keys \cup {None} : rekey(old_key, new_key)
    \/ \E typed \in TypedKeys, new_key \in Keys \cup {None} : cmd_rekey(typed, new_key)
    \/ \E typed \in TypedKeys, bib \in BOOLEAN, edited \in BibSources :
           open(typed, bib, edited)

Spec == Init /\ [][Next]_vars

\* The archive under add and rekey alone, the source paths given to add naming
\* a file or not.
NextArchive ==
    \/ \E data \in Pdfs \cup {NoSuchFile}, bib \in BibSources : add(data, bib)
    \/ \E data \in Pdfs \cup {NoSuchFile}, bib \in BibSources, delete \in BOOLEAN :
           do_add(data, bib, delete)
    \/ \E old_key \in Keys, new_key \in Keys \cup {None} : rekey(old_key, new_key)
    \/ \E typed \in TypedKeys, new_key \in Keys \cup {None} : cmd_rekey(typed, new_key)

SpecArchive == Init /\ [][NextArchive]_vars

(***************************************************************************)
(* Claims about the archive store, checked under Spec.                     *)
(***************************************************************************)
IsRekey(call) == call.op \in {"rekey", "cmd_rekey"}
IsAdd(call) == call.op \in {"add", "do_add"}

\* This step is a rekey of a present key to a new key that is not present:
\* the new key given, or read from the single record of the key's
\* bibliographic file.
RekeyToFreeKey ==
    /\ IsRekey(last')
    /\ last'.key \in DOMAIN archive
    /\ ResolveNewKey(archive, last'.key, last'.new_key).err = Ok
    /\ ResolveNewKey(archive, last'.key, last'.new_key).key \notin DOMAIN archive

ResolvedKey == ResolveNewKey(archive, last'.key, last'.new_key).key

\* C3: a rekey of a present key to a key that is not present completes without
\* error, and afterwards the archive holds directory k2 with k2.pdf and k2.bib
\* in it and no directory k.
C3_RekeyMovesDocument ==
    [][RekeyToFreeKey =>
          /\ last'.err = Ok
          /\ ResolvedKey \in DOMAIN archive'
          /\ ResolvedKey \in DOMAIN archive'[ResolvedKey].pdf
          /\ ResolvedKey \in DOMAIN archive'[ResolvedKey].bib
          /\ last'.key \notin DOMAIN archive']_vars

\* C4: after a rekey of k to k2 the bibliographic file of k2 holds exactly one
\* record, whose identifier is k2 and whose other fields are those the record
\* of k had.
C4_RekeyIdentifierRoundTrip ==
    [][(/\ RekeyToFreeKey
        /\ last'.key \in DOMAIN archive[last'.key].bib
        /\ Len(archive[last'.key].bib[last'.key]) = 1) =>
          /\ ResolvedKey \in DOMAIN archive'
          /\ ResolvedKey \in DOMAIN archive'[ResolvedKey].bib
          /\ archive'[ResolvedKey].bib[ResolvedKey] =
                 << [archive[last'.key].bib[last'.key][1] EXCEPT !.ID = ResolvedKey] >>
          /\ key_from_bibtex(archive'[ResolvedKey].bib[ResolvedKey]) =
                 [err |-> Ok, key |-> ResolvedKey]]_vars

\* C5: a rekey of a present key to a key that is not present returns the key
\* the document is now stored under, and the command prints that key in its
\* 'Renamed ... to ...' message.
C5_RekeyReturnsNewKey ==
    [][RekeyToFreeKey =>
          /\ last'.ret = ResolvedKey
          /\ last'.op = "cmd_rekey" => last'.out = << last'.key, ResolvedKey >>]_vars

\* C6: rekey fails with the not-found error when the old key is absent and
\* with the duplicate-key error when the resolved new key is present; in both
\* cases nothing of the archive or of the filesystem around it changes.
C6_RekeyFailureLeavesStore ==
    [][IsRekey(last') =>
          /\ last'.key \notin DOMAIN archive =>
                 (last'.err = ErrNotFound /\ UNCHANGED << archive, archive_path, fs >>)
          /\ (/\ last'.key \in DOMAIN archive
              /\ ResolveNewKey(archive, last'.key, last'.new_key).err = Ok
              /\ ResolvedKey \in DOMAIN archive) =>
                 (last'.err = ErrDuplicate /\ UNCHANGED << archive, archive_path, fs >>)]_vars

\* A rekey without a new key, of a key whose bibliographic identifier is still
\* that key, has failed as a duplicate; the archive holds another key too.
C6_Witness ==
    /\ IsRekey(last)
    /\ last.new_key = None
    /\ last.err = ErrDuplicate
    /\ last.key \in DOMAIN archive
    /\ last.key \in DOMAIN archive[last.key].bib
    /\ key_from_bibtex(archive[last.key].bib[last.key]).key = last.key
    /\ Cardinality(DOMAIN archive) = 2

\* C7: add of a bibliographic source of more than one record fails with the
\* ambiguous-key error and leaves the set of keys of the archive as it was.
C7_AddMultiRecordFails ==
    [][(IsAdd(last') /\ Len(last'.src) > 1) =>
          /\ last'.err \in {ErrAmbiguous, RetAmbiguous}
          /\ DOMAIN archive' = DOMAIN archive]_vars

\* C8: add of a source whose record has a key already in the archive fails
\* with the duplicate-key error and leaves the archive, the key's directory
\* with its pdf and bib file included, as it was.
C8_AddNeverOverwrites ==
    [][(/\ IsAdd(last')
        /\ key_from_bibtex(last'.src).err = Ok
        /\ key_from_bibtex(last'.src).key \in DOMAIN archive) =>
          /\ last'.err = IF last'.op = "add" THEN ErrDuplicate ELSE RetExists
          /\ archive' = archive]_vars

\* An add of a source with the key of a document in the archive, whose files
\* differ from the source, has failed as a duplicate.
C8_Witness ==
    /\ last.op = "add"
    /\ last.err = ErrDuplicate
    /\ key_from_bibtex(last.src).key \in DOMAIN archive
    /\ key_from_bibtex(last.src).key \in DOMAIN archive[key_from_bibtex(last.src).key].bib
    /\ archive[key_from_bibtex(last.src).key].bib[key_from_bibtex(last.src).key] # last.src

\* A key directory with the key's PDF and the key's bibliographic file in it.
WellFormed(arch, key) ==
    /\ key \in DOMAIN arch
    /\ key \in DOMAIN arch[key].pdf
    /\ key \in DOMAIN arch[key].bib

(***************************************************************************)
(* The well-formedness of the archive, checked under SpecArchive.          *)
(***************************************************************************)
\* C16 as stated: in every state reached by add and rekey calls, failed ones
\* included, from a well-formed (here: the empty) archive, the directory of
\* every key of the archive holds <key>.pdf and <key>.bib.
C16_ArchiveWellFormed ==
    \A key \in DOMAIN archive : WellFormed(archive, key)

\* C16 as amended: no call breaks a well-formed key directory, and a key
\* directory without <key>.pdf and <key>.bib comes into the archive only by
\* an add that failed in the copy of its PDF (the documented partial failure
\* of add); every add that ends without error leaves its key well formed.
C16_WellFormedButFailedAdd ==
    [][\A key \in DOMAIN archive' :
          \/ WellFormed(archive', key)
          \/ key \in DOMAIN archive /\ ~WellFormed(archive, key)
          \/ /\ IsAdd(last')
             /\ last'.err = ErrNoFile
             /\ key \notin DOMAIN archive
             /\ key_from_bibtex(last'.src).key = key]_vars

\* A rekey has been called on an archive that holds a well-formed key
\* directory and one a failed add has left.
C16_Witness ==
    /\ IsRekey(last)
    /\ \E key \in DOMAIN archive : WellFormed(archive, key)
    /\ \E key \in DOMAIN archive : ~WellFormed(archive, key)

\* The operations that resolve a key through get_doc.
ResolvesKey(call) == call.op \in {"get_doc", "rekey", "cmd_rekey", "open", "link", "bookmark"}

\* C14: get_doc of a key that is not in the archive, and each operation that
\* resolves such a key through it, ends with an error of the library's own
\* class, the class of the duplicate-key and the other structural errors,
\* which main catches and reports, returning 1; the store is unchanged.
C14_GetAbsentKeyTypedFailure ==
    [][(ResolvesKey(last') /\ ~has_key(archive, last'.key)) =>
          /\ last'.err \in LibraryExceptions
          /\ main(last'.err) = [caught |-> TRUE, traceback |-> FALSE, status |-> 1]
          /\ UNCHANGED << archive, archive_path, fs >>]_vars

(***************************************************************************)
(* The link manager: the operations as steps, with what the user does to   *)
(* the filesystem between two commands.                                    *)
(***************************************************************************)
\* manager.link(key, path)
link(key, path) ==
    LET r == manager_link(fs, archive, archive_path, key, path)
    IN  /\ fs' = r.fs
        /\ last' = [op |-> "link", key |-> key, path |-> path, err |-> r.err,
                    ret |-> r.ret]
        /\ UNCHANGED << archive, archive_path >>

\* manager.fix_link(link); read is the target the link had when it was called,
\* again whether the call before this one was a fix_link of the same path that
\* went through.
fix_link(path) ==
    LET r == manager_fix_link(fs, archive, archive_path, path)
    IN  /\ fs' = r.fs
        /\ last' = [op |-> "fix_link", path |-> path,
                    read |-> IF islink(fs, abspath(path)) THEN fs[abspath(path)].target
                             ELSE << >>,
                    again |-> (last.op = "fix_link" /\ last.path = path /\ last.err = Ok
                               /\ last.ret = None),
                    err |-> r.err, ret |-> r.ret, out |-> r.out]
        /\ UNCHANGED << archive, archive_path >>

\* The orders a set of names may be listed in.
OrdersOf(names) ==
    {order \in [1..Cardinality(names) -> names] :
        \A i, j \in DOMAIN order : order[i] = order[j] => i = j}

\* manager.fix_links(directory)
fix_links(directory) ==
    \E files \in OrdersOf(listdir(fs, archive, archive_path, directory).names) :
        LET r == manager_fix_links(fs, archive, archive_path, directory, files)
        IN  /\ fs' = r.fs
            /\ last' = [op |-> "fix_links", directory |-> directory, err |-> r.err,
                        ret |-> r.ret, out |-> r.out]
            /\ UNCHANGED << archive, archive_path >>

\* os.path.isdir: the path, symlinks followed, leads to a directory.
isdir(fsys, arch, root, path) == listdir(fsys, arch, root, path).err = Ok

\* LibraryCommandInterface.link with --fix: the key typed is sanitized, and
\* fix_links or fix_link gets it as it is a directory or not.
cmd_link_fix(typed) ==
    LET key == sanitize_key(typed)
    IN  \E files \in OrdersOf(listdir(fs, archive, archive_path, << key >>).names) :
            LET r == IF isdir(fs, archive, archive_path, << key >>)
                        THEN manager_fix_links(fs, archive, archive_path, << key >>, files)
                     ELSE manager_fix_link(fs, archive, archive_path, << key >>)
            IN  /\ fs' = r.fs
                /\ last' = [op |-> "cmd_link_fix", directory |-> << key >>,
                            err |-> r.err, ret |-> r.ret, out |-> r.out]
                /\ UNCHANGED << archive, archive_path >>

\* LibraryManager.__init__: the bookmarks directory is in the library, next
\* to the archive.
bookmarks_path(root) == dirname(root) \o << nBookmarks >>

\* LibraryManager.bookmark.  When the bookmarks directory is not there the
\* manager evaluates self.self.bookmarks_path, and there is no attribute self.
manager_bookmark(fsys, arch, root, key, name) ==
    IF ~isdir(fsys, arch, root, bookmarks_path(root))
        THEN FsOutcome(ErrAttribute, fsys, None, << >>)
    ELSE manager_link(fsys, arch, root, key,
                      bookmarks_path(root) \o << IF name # None THEN name ELSE key >>)

\* manager.bookmark(key, name)
bookmark(key, name) ==
    LET r == manager_bookmark(fs, archive, archive_path, key, name)
    IN  /\ fs' = r.fs
        /\ last' = [op |-> "bookmark", key |-> key, name |-> name, err |-> r.err,
                    ret |-> r.ret]
        /\ UNCHANGED << archive, archive_path >>

\* The user makes a file, a directory or a symlink at a free path, in a
\* directory that is there.
EnvCreate(path, object) ==
    /\ path \notin DOMAIN fs
    /\ parent_isdir(fs, archive, archive_path, path)
    /\ fs' = Put(fs, path, object)
    /\ last' = [op |-> "env", err |-> Ok]
    /\ UNCHANGED << archive, archive_path >>

\* The user removes what is at a path (a directory when it is empty).
EnvRemove(path) ==
    /\ path \in DOMAIN fs
    /\ \A q \in DOMAIN fs : dirname(q) # path
    /\ fs' = Remove(fs, path)
    /\ last' = [op |-> "env", err |-> Ok]
    /\ UNCHANGED << archive, archive_path >>

\* The user removes a document's directory from the archive.
EnvRemoveDoc(key) ==
    /\ key \in DOMAIN archive
    /\ archive' = Remove(archive, key)
    /\ last' = [op |-> "env", err |-> Ok]
    /\ UNCHANGED << archive_path, fs >>

\* The user moves the library, with the archive in it, and points the
\* configuration file at the new place.
MoveLibrary(root) ==
    /\ root # archive_path
    /\ archive_path' = root
    /\ last' = [op |-> "env", err |-> Ok]
    /\ UNCHANGED << archive, fs >>

\* The path arguments of link and of fix_link: none, relative, absolute.
LinkArgs == {NoPath, << nPaper >>, Cwd \o << nPaper >>}
FixArgs == {<< ka >>, << kb >>, << nPaper >>, Cwd \o << nPaper >>}

\* What the user puts at a path, and where.
EnvPaths == {Cwd \o << ka >>, Cwd \o << nPaper >>}
EnvObjects ==
    {File, Directory, SymLink(<< RootDir, nGone >>)}
        \cup {SymLink(key_path(root, key)) : root \in ArchivePaths, key \in {ka, kb}}

NextLink ==
    \/ \E bib \in {BibA, BibB} : add("pdf1", bib)
    \/ \E key \in Keys, path \in LinkArgs : link(key, path)
    \/ \E path \in FixArgs : fix_link(path)
    \/ \E path \in EnvPaths, object \in EnvObjects : EnvCreate(path, object)
    \/ \E path \in EnvPaths : EnvRemove(path)
    \/ \E key \in Keys : EnvRemoveDoc(key)
    \/ \E root \in ArchivePaths : MoveLibrary(root)

SpecLink == Init /\ [][NextLink]_vars

(***************************************************************************)
(* Claims about the link manager, checked under SpecLink.                  *)
(***************************************************************************)
\* The destination link resolves its arguments to.
LinkDest(call) == abspath(IF call.path # NoPath THEN call.path ELSE << call.key >>)

\* C9: link fails with the not-found error when the key is absent and with
\* the already-exists error when anything is at the destination (a file, a
\* directory, a valid or a dangling symlink), leaving the destination as it
\* was; otherwise it makes a symlink there to the key's directory.
C9_LinkNeverOverwrites ==
    [][last'.op = "link" =>
          /\ last'.key \notin DOMAIN archive =>
                 (last'.err = ErrNotFound /\ fs' = fs)
          /\ (last'.key \in DOMAIN archive /\ lexists(fs, LinkDest(last'))) =>
                 (last'.err = ErrExists /\ fs' = fs)
          /\ (last'.key \in DOMAIN archive /\ ~lexists(fs, LinkDest(last'))) =>
                 /\ last'.err = Ok
                 /\ fs' = Put(fs, LinkDest(last'),
                              SymLink(key_path(archive_path, last'.key)))]_vars

\* C10: fix_link on a symlink whose target's last component is a key of the
\* archive leaves a symlink at the same path to that key's directory under
\* the current archive path, a link that resolves.
C10_FixLinkRepairs ==
    [][(/\ last'.op = "fix_link"
        /\ islink(fs, abspath(last'.path))
        /\ basename(fs[abspath(last'.path)].target) \in DOMAIN archive) =>
          /\ last'.err = Ok
          /\ islink(fs', abspath(last'.path))
          /\ fs'[abspath(last'.path)].target =
                 key_path(archive_path, basename(fs[abspath(last'.path)].target))
          /\ exists(fs', archive', archive_path', abspath(last'.path))]_vars

\* fix_link has repaired a link that pointed at a present key's directory
\* under another archive path.
C10_Witness ==
    /\ last.op = "fix_link"
    /\ last.err = Ok
    /\ last.ret = None
    /\ basename(last.read) \in DOMAIN archive
    /\ dirname(last.read) # archive_path
    /\ fs[abspath(last.path)] = SymLink(key_path(archive_path, basename(last.read)))

\* The link at a path points at the directory a present key has now.
ValidLink(fsys, arch, root, path) ==
    /\ islink(fsys, path)
    /\ basename(fsys[path].target) \in DOMAIN arch
    /\ fsys[path].target = key_path(root, basename(fsys[path].target))

\* C11: fix_link on a link that points at a present key's current archive
\* directory raises nothing and leaves the link with the same target, so that
\* it is valid again for the next application: applied twice in a row, the
\* target after the first and after the second application is the one before.
C11_FixLinkIdempotent ==
    [][(/\ last'.op = "fix_link"
        /\ ValidLink(fs, archive, archive_path, abspath(last'.path))) =>
          /\ last'.err = Ok
          /\ last'.ret = None
          /\ ValidLink(fs', archive', archive_path', abspath(last'.path))
          /\ fs'[abspath(last'.path)].target = fs[abspath(last'.path)].target
          /\ fs' = fs]_vars

\* fix_link has been applied twice in a row to a valid link, given by a
\* relative path.
C11_Witness ==
    /\ last.op = "fix_link"
    /\ last.again
    /\ last.err = Ok
    /\ last.ret = None
    /\ ~isabs(last.path)
    /\ last.read = key_path(archive_path, basename(last.read))
    /\ ValidLink(fs, archive, archive_path, abspath(last.path))

(***************************************************************************)
(* Repairing links one by one and by the directory: fix_link, fix_links    *)
(* and link --fix on links in the working directory and in a directory     *)
(* below it, made by the user to documents of the library and to other     *)
(* places.                                                                 *)
(***************************************************************************)
\* The path arguments of fix_link, the directory arguments of fix_links, and
\* what the user types for link --fix ("p" and "p/").
RepairArgs == {<< ka >>, << nPaper >>, << nPaper, ka >>}
RepairDirs == {Cwd, << nPaper >>, Cwd \o << nPaper >>}
TypedDirs == {nPaper, nPaper \o << Slash >>}

\* What the user puts at a path, and where: a directory, links to a document
\* where the library is and where it was, a link to a place that is gone and
\* a link to "/".
RepairPaths == {Cwd \o << ka >>, Cwd \o << nPaper >>, Cwd \o << nPaper, ka >>}
RepairObjects ==
    {Directory, SymLink(<< RootDir, nGone >>), SymLink(<< RootDir >>)}
        \cup {SymLink(key_path(root, ka)) : root \in ArchivePaths}

NextRepair ==
    \/ add("pdf1", BibA)
    \/ \E path \in RepairArgs : fix_link(path)
    \/ \E directory \in RepairDirs : fix_links(directory)
    \/ \E typed \in TypedDirs : cmd_link_fix(typed)
    \/ \E path \in RepairPaths, object \in RepairObjects : EnvCreate(path, object)
    \/ \E path \in RepairPaths : EnvRemove(path)
    \/ EnvRemoveDoc(ka)
    \/ \E root \in ArchivePaths : MoveLibrary(root)

SpecRepair == Init /\ [][NextRepair]_vars

(***************************************************************************)
(* Claims about repairing links, checked under SpecRepair.                 *)
(***************************************************************************)
\* The directory a fix_links call is given, when it is one.
GivenDirectory == abspath(last'.directory)
IsRealDirectory(fsys, path) ==
    path = Cwd \/ (path \in DOMAIN fsys /\ fsys[path].kind = "dir")

\* C12: fix_links(directory), for the working directory and for any other
\* directory, ends without error even when some link's key is absent, leaves
\* every symlink directly inside the directory whose target's last component
\* is a present key pointing at that key's directory under the current
\* archive path, and touches nothing that is not directly inside it.
C12_FixLinksWholeDirectory ==
    [][(/\ last'.op \in {"fix_links", "cmd_link_fix"}
        /\ IsRealDirectory(fs, GivenDirectory)) =>
          /\ last'.err = Ok
          /\ DOMAIN fs' = DOMAIN fs
          /\ \A q \in DOMAIN fs :
                 IF /\ dirname(q) = GivenDirectory
                    /\ islink(fs, q)
                    /\ basename(fs[q].target) \in DOMAIN archive
                     THEN fs'[q] = SymLink(key_path(archive_path, basename(fs[q].target)))
                 ELSE dirname(q) # GivenDirectory => fs'[q] = fs[q]]_vars

\* C18: fix_link on a symlink whose target's last component is not a key of
\* the archive raises nothing, reports the link, and leaves the symlink there
\* with the target it had; on a path that is not a symlink it fails with the
\* not-a-link error; in both cases nothing of the filesystem changes.
C18_FixLinkStillBroken ==
    [][last'.op = "fix_link" =>
          /\ (/\ islink(fs, abspath(last'.path))
              /\ basename(fs[abspath(last'.path)].target) \notin DOMAIN archive) =>
                 /\ last'.err = Ok
                 /\ last'.out = << last'.path >>
                 /\ fs' = fs
          /\ ~islink(fs, abspath(last'.path)) =>
                 (last'.err = ErrNotLink /\ fs' = fs)]_vars

(***************************************************************************)
(* Bookmarks: bookmark on a library whose bookmarks directory the user may *)
(* have made, with entries of the user's in it.                            *)
(***************************************************************************)
BookmarkNames == {None, nPaper}
BookmarksDir == bookmarks_path(InitialPath)
BookmarkPaths == {BookmarksDir, BookmarksDir \o << ka >>, BookmarksDir \o << nPaper >>}
BookmarkObjects == {File, Directory, SymLink(<< RootDir, nGone >>)}

NextBookmark ==
    \/ \E bib \in {BibA, BibB} : add("pdf1", bib)
    \/ \E key \in Keys, name \in BookmarkNames : bookmark(key, name)
    \/ \E path \in BookmarkPaths, object \in BookmarkObjects : EnvCreate(path, object)
    \/ \E path \in BookmarkPaths : EnvRemove(path)

SpecBookmark == Init /\ [][NextBookmark]_vars

\* The destination bookmark resolves its arguments to.
BookmarkDest(call) ==
    bookmarks_path(archive_path) \o << IF call.name # None THEN call.name ELSE call.key >>

\* C13: bookmark of a present key, when nothing is at the path of the bookmarks
\* directory, makes the directory and in it the symlink <name or key> to the
\* key's directory; when the directory is there it ends as link with that
\* destination ends, with the same error or the same symlink made.
C13_BookmarkCreatesDirectory ==
    [][(last'.op = "bookmark" /\ last'.key \in DOMAIN archive) =>
          /\ ~lexists(fs, bookmarks_path(archive_path)) =>
                 /\ last'.err = Ok
                 /\ fs' = Put(Put(fs, bookmarks_path(archive_path), Directory),
                              BookmarkDest(last'),
                              SymLink(key_path(archive_path, last'.key)))
          /\ IsRealDirectory(fs, bookmarks_path(archive_path)) =>
                 /\ last'.err = manager_link(fs, archive, archive_path, last'.key,
                                             BookmarkDest(last')).err
                 /\ fs' = manager_link(fs, archive, archive_path, last'.key,
                                       BookmarkDest(last')).fs]_vars

(***************************************************************************)
(* The search orchestrator: search_docs as a step on an archive that is    *)
(* already there.                                                          *)
(***************************************************************************)
\* The orders os.listdir may list the key directories in.
ListOrders(arch) ==
    {order \in [1..Cardinality(DOMAIN arch) -> DOMAIN arch] :
        \A i, j \in DOMAIN order : order[i] = order[j] => i = j}

\* manager.search_docs(year=..., text=..., sort=..., number=..., reverse=...)
search(order, tmpl, sort, number, reverse) ==
    LET r == search_docs(archive, order, tmpl, sort, number, reverse)
    IN  /\ last.op = "none"
        /\ last' = [op |-> "search", order |-> order, tmpl |-> tmpl, sort |-> sort,
                    number |-> number, reverse |-> reverse, err |-> r.err, ret |-> r.ret]
        /\ UNCHANGED << archive, archive_path, fs >>

\* lib.py: grep regex [--bib] [--text] [--case-sensitive]
grep(regex, bib, text, case_sensitive) ==
    /\ last.op = "none"
    /\ last' = [op |-> "grep", regex |-> regex, bib |-> bib, text |-> text,
                case_sensitive |-> case_sensitive, err |-> Ok,
                ret |-> lib_do_grep(archive, regex, bib, text, case_sensitive)]
    /\ UNCHANGED << archive, archive_path, fs >>

\* The documents an archive holds when a search starts: a title, a year, a
\* PDF, the time it was added and the time it was last read.
DocProfiles ==
    {<< tAb, y2020, "pdf1", 1, MaxTime >>, << tab, y999, "pdf2", MaxTime, MaxTime >>,
     << tB, y2019, "pdf1", 1, 1 >>, << tc, y2020, "pdf2", MaxTime, MaxTime >>}

SearchDocs(key) ==
    {[DocDir(key, p[3], << Rec(key, p[1], p[2]) >>, p[4], TRUE)
         EXCEPT !.pdf[key].atime = p[5]] : p \in DocProfiles}

SearchArchives ==
    UNION {{arch \in [present -> UNION {SearchDocs(key) : key \in present}] :
               \A key \in present : arch[key] \in SearchDocs(key)} :
           present \in {some \in SUBSET Keys : Cardinality(some) <= MaxDocs}}

\* The filters and the limits of the searches.
Templates ==
    {DocumentTemplate(None, << >>), DocumentTemplate(None, << 97 >>),
     DocumentTemplate(y2019, << >>), DocumentTemplate(None, << 122 >>)}
Numbers == {NoNumber, Returned(0), Returned(1)}

\* The characters the regexes of grep match: "a", "A", "z".
Regexes == {97, 65, 122}

InitSearch ==
    /\ archive \in SearchArchives
    /\ archive_path = InitialPath
    /\ fs = Empty
    /\ last = [op |-> "none", err |-> Ok]

\* One run of the browse or of the grep command: the process makes one search
\* and exits.
NextSearch ==
    \/ \E order \in ListOrders(archive), tmpl \in Templates,
          sort \in SortKeys \cup {NoSort}, number \in Numbers, reverse \in BOOLEAN :
           search(order, tmpl, sort, number, reverse)
    \/ \E regex \in Regexes, bib \in BOOLEAN, text \in BOOLEAN,
          case_sensitive \in BOOLEAN :
           grep(regex, bib, text, case_sensitive)

SpecSearch == InitSearch /\ [][NextSearch]_vars

(***************************************************************************)
(* Claims about search, checked under SpecSearch.                          *)
(***************************************************************************)
\* a is not after b in the ascending order of a sort key: keys as strings,
\* titles as case-folded strings, years as numbers, dates, match counts.
AscendingPair(sort, a, b) ==
    LET da == ArchivalDocument(archive, a.key)
        db == ArchivalDocument(archive, b.key)
    IN  CASE sort = "key"     -> ~StrLess(db.key, da.key)
          [] sort = "title"   -> ~StrLess(Lower(db.bibtex.title), Lower(da.bibtex.title))
          [] sort = "year"    -> NumValue(da.bibtex.year) <= NumValue(db.bibtex.year)
          [] sort = "added"   -> da.added <= db.added
          [] sort = "recent"  -> da.accessed <= db.accessed
          [] sort = "matches" -> a.count <= b.count

\* C1: a search that returns its results sorted returns them ascending for
\* key and title and descending (newest, most matches first) for year, added,
\* recent and matches; with reverse each of these orders is flipped.
C1_SortDirection ==
    (last.op = "search" /\ last.sort \in SortKeys /\ last.err = Ok) =>
        \A i, j \in 1..Len(last.ret) :
            i < j =>
                IF (last.sort \in {"key", "title"}) = ~last.reverse
                    THEN AscendingPair(last.sort, last.ret[i], last.ret[j])
                ELSE AscendingPair(last.sort, last.ret[j], last.ret[i])

\* C2: a search that no document of the archive matches, whatever its sort
\* key, limit and direction, completes normally and returns an empty result.
C2_NoMatchIsEmptyResult ==
    (/\ last.op = "search"
     /\ \A key \in DOMAIN archive :
            ~matches(ArchivalDocument(archive, key), last.tmpl)[1]) =>
        (last.err = Ok /\ last.ret = << >>)

\* A string of decimal digits.
IsNumeral(s) == s # << >> /\ \A i \in 1..Len(s) : s[i] >= 48 /\ s[i] <= 57

YearOf(entry) == ArchivalDocument(archive, entry.key).bibtex.year

\* C15: a search sorted by year, every document returned having a numeral for
\* its year, returns the documents in the order of the numbers the years
\* denote: largest first without reverse (2020 before 999), smallest first
\* with it.
C15_YearSortNumeric ==
    (/\ last.op = "search"
     /\ last.sort = "year"
     /\ last.err = Ok
     /\ \A i \in 1..Len(last.ret) : IsNumeral(YearOf(last.ret[i]))) =>
        \A i, j \in 1..Len(last.ret) :
            i < j =>
                IF last.reverse
                    THEN NumValue(YearOf(last.ret[i])) <= NumValue(YearOf(last.ret[j]))
                ELSE NumValue(YearOf(last.ret[i])) >= NumValue(YearOf(last.ret[j]))

\* The matching documents of a search in the order asked for, before any
\* limit: sorted, or as listed when no sort is asked for.
Untruncated(call) ==
    LET found == matching(archive, call.order, call.tmpl)
    IN  IF call.sort # NoSort
            THEN sorted(found, call.sort, Direction(call.sort, call.reverse))
        ELSE found

Min(a, b) == IF a < b THEN a ELSE b

\* C17: a search given a limit n >= 0, 0 included, that ends without error
\* returns the first min(n, m) of its m matching documents in the order asked
\* for, each with its own match count.
C17_TruncationKeepsPrefix ==
    (last.op = "search" /\ last.number # NoNumber /\ last.err = Ok) =>
        /\ Len(last.ret) = Min(last.number[1], Len(Untruncated(last)))
        /\ \A i \in 1..Len(last.ret) :
               last.ret[i] = [key   |-> Untruncated(last)[i].doc.key,
                              count |-> Untruncated(last)[i].count]

\* The matches of a regex in a document's bibliographic fields other than the
\* identifier, and in its extracted text (none when extraction failed).
BibMatches(call, doc) ==
    findall_count(call.regex, call.case_sensitive, doc.bibtex.title)
        + findall_count(call.regex, call.case_sensitive, doc.bibtex.year)
TextMatches(call, doc) ==
    IF doc.text = None THEN 0
    ELSE findall_count(call.regex, call.case_sensitive, doc.text)

\* C19: a grep given neither --bib nor --text scans both scopes: a document
\* is reported iff the matches in its bibliographic fields (the identifier
\* left out) and in its text number more than 0 together, with that total for
\* its match count (one in the title and two in the text: 3).
C19_MatchCountDefaultScope ==
    (last.op = "grep" /\ ~last.bib /\ ~last.text) =>
        \A key \in DOMAIN archive :
            LET doc   == ArchivalDocument(archive, key)
                total == BibMatches(last, doc) + TextMatches(last, doc)
            IN  /\ key \in DOMAIN last.ret <=> total > 0
                /\ total > 0 => last.ret[key] = total

====
